---- MODULE Spec2Model ----
(***************************************************************************)
(* Fact-Verification: a Soroban contract keeping a registry of facts, each *)
(* with a true/false poll.  The model follows                              *)
(* contracts/smart contract/src/lib.rs: the instance entry FACT_CNT, the   *)
(* persistent entries (FACT, id), their time-to-live, and the five entry   *)
(* points submit_fact, vote, get_fact, get_all_facts and get_fact_count.   *)
(* A call that panics is rolled back by the host, so it leaves the         *)
(* storage as it found it and only its outcome is recorded.                *)
(***************************************************************************)
EXTENDS Integers, Sequences, FiniteSets, TLC

\* ---------------------------------------------------------------- bounds
\* Highest counter value explored (submit_fact is not taken beyond it).
MaxFacts == 2
\* Number of identities that call the contract.
MaxAddr == 2
\* Number of successful votes explored over all facts.
MaxVotes == 2
\* Ledgers that pass in one step of the ledger clock.
LedgerStep == 60
\* Time-to-live the host gives an entry when it is created.
MinPersistentTtl == 40

\* ------------------------------------------------------ program constants
\* extend_ttl(key, 100, 100): threshold and extend_to.
TtlThreshold == 100
TtlExtendTo == 100

\* ------------------------------------------------------------ input sets
Address == 1..MaxAddr
Texts == {"", "The Earth is round"}
\* Fact ids a caller may pass: 0, every id that can be assigned, one beyond.
FactIds == 0..(MaxFacts + 1)

\* Option<T> as a set with at most one element.
None == {}
Some(x) == {x}

\* Option::unwrap_or
UnwrapOr(opt, default) == IF opt = None THEN default ELSE CHOOSE x \in opt : TRUE

VARIABLES
    fact_cnt,       \* instance storage: Option<u32> under FACT_CNT
    instance_ttl,   \* remaining ledgers of the contract instance (and FACT_CNT)
    persistent,     \* persistent storage: live fact id -> Fact
    ttl,            \* remaining ledgers of each live persistent entry
    last,           \* the last call: operation, arguments, outcome, value
    returned,       \* history: ids returned by successful submit_fact calls
    voted,          \* history: <<voter, fact_id>> of every successful vote
    vote_log,       \* history: per fact id, the successful vote calls in return order
    calls           \* vote calls between their load and their write-back

vars == <<fact_cnt, instance_ttl, persistent, ttl, last, returned, voted,
          vote_log, calls>>

\* struct Fact
Fact(id, text, creator, true_votes, false_votes, voters) ==
    [id |-> id, text |-> text, creator |-> creator,
     true_votes |-> true_votes, false_votes |-> false_votes, voters |-> voters]

\* env.storage().persistent().get(&(FACT_PREFIX, id))
PersistentGet(id) == IF id \in DOMAIN persistent THEN Some(persistent[id]) ELSE None

\* env.storage().instance().get(&FACT_COUNT).unwrap_or(0)
StoredCount == UnwrapOr(fact_cnt, 0)

\* extend_ttl(threshold, extend_to) on an entry with t ledgers left
ExtendTtl(t, threshold, extend_to) ==
    IF t <= threshold /\ extend_to > t THEN extend_to ELSE t

\* The contract can be invoked while its instance is live.
InstanceLive == instance_ttl >= 0

Unit == <<>>

\* The record of a call.
Call(op, who, text, fact_id, is_true, auth, result, ret) ==
    [op |-> op, who |-> who, text |-> text, fact_id |-> fact_id,
     is_true |-> is_true, auth |-> auth, result |-> result, ret |-> ret]

\* A vote call that returned success: its voter, its fact, and how many
\* votes on the fact had been written when it loaded the record.
Voted(voter, fact_id, loaded_at) ==
    [voter |-> voter, fact_id |-> fact_id, loaded_at |-> loaded_at]

\* The successful votes on a fact so far.
LogOf(fact_id) == IF fact_id \in DOMAIN vote_log THEN vote_log[fact_id] ELSE <<>>

\* The log after one more successful vote.
Logged(voter, fact_id, loaded_at) ==
    [k \in (DOMAIN vote_log) \cup {fact_id} |->
        IF k = fact_id THEN Append(LogOf(k), Voted(voter, fact_id, loaded_at))
        ELSE vote_log[k]]

NoCall == Call("none", 0, "", 0, FALSE, FALSE, "ok", Unit)

\* A panic (require_auth, expect, panic!) aborts the invocation: the host
\* discards its writes and the caller sees the failure.
Panic(call) ==
    /\ last' = call
    /\ UNCHANGED <<fact_cnt, instance_ttl, persistent, ttl, returned, voted, vote_log, calls>>

Init ==
    /\ fact_cnt = None
    /\ instance_ttl = MinPersistentTtl
    /\ persistent = <<>>
    /\ ttl = <<>>
    /\ last = NoCall
    /\ returned = <<>>
    /\ voted = {}
    /\ vote_log = <<>>
    /\ calls = <<>>

\* ------------------------------------------------------------ submit_fact
\* Mutant: the id skips a value.
NewIdSkip(fact_count) == fact_count + 2

\* Mutant: the counter is taken as the id (the increment is lost once the
\* counter is set).
NewIdReuse(fact_count) == IF fact_count = 0 THEN 1 ELSE fact_count

\* Mutant: the lowest id without a record is taken.
NewIdFirstFree(fact_count) ==
    CHOOSE id \in 1..(fact_count + 1) :
        /\ id = fact_count + 1 \/ id \notin DOMAIN persistent
        /\ \A k \in 1..(id - 1) : k \in DOMAIN persistent

\* let new_id = fact_count + 1;
NewId(fact_count) == fact_count + 1

\* Mutant: the creator is entered as a voter of the new fact.
NewFactCreatorVoted(new_id, creator, text) == Fact(new_id, text, creator, 0, 0, <<creator>>)

\* Mutant: the record carries the counter read, not the new id.
NewFactOldId(new_id, creator, text) == Fact(new_id - 1, text, creator, 0, 0, <<>>)

\* Fact { id: new_id, text, creator, true_votes: 0, false_votes: 0, voters: Vec::new() }
NewFact(new_id, creator, text) == Fact(new_id, text, creator, 0, 0, <<>>)

\* persistent().set(&key, &val): the map after the write
SetEntry(store, key, val) ==
    [k \in (DOMAIN store) \cup {key} |-> IF k = key THEN val ELSE store[k]]

\* persistent().set(&key, ..): a new entry starts with the host's minimum
\* time-to-live, an existing one keeps the time it has left
SetTtl(t, key) ==
    [k \in (DOMAIN t) \cup {key} |->
        IF k \in DOMAIN t THEN t[k] ELSE MinPersistentTtl]

\* Mutant: the extend_ttl call on the entry is left out.
ExtendEntryTtlOmitted(t, key) == t

\* Mutant: every persistent entry is extended, not the one under the key.
ExtendEntryTtlAll(t, key) ==
    [k \in DOMAIN t |-> ExtendTtl(t[k], TtlThreshold, TtlExtendTo)]

\* persistent().extend_ttl(&key, 100, 100)
ExtendEntryTtl(t, key) ==
    [t EXCEPT ![key] = ExtendTtl(t[key], TtlThreshold, TtlExtendTo)]

\* instance().extend_ttl(100, 100)
ExtendInstanceTtl(t) == ExtendTtl(t, TtlThreshold, TtlExtendTo)

\* The handler, explored while the counter is below cap.
submit_fact_within(cap, creator, text, auth) ==
    /\ InstanceLive
    /\ IF ~auth
       THEN \* creator.require_auth() panics
            Panic(Call("submit_fact", creator, text, 0, FALSE, auth,
                       "AuthorizationFailure", Unit))
       ELSE LET fact_count == StoredCount
                new_id == NewId(fact_count)
                fact == NewFact(new_id, creator, text)
            IN  /\ fact_count < cap
                /\ persistent' = SetEntry(persistent, new_id, fact)
                /\ fact_cnt' = Some(new_id)
                /\ ttl' = ExtendEntryTtl(SetTtl(ttl, new_id), new_id)
                /\ instance_ttl' = ExtendInstanceTtl(instance_ttl)
                /\ last' = Call("submit_fact", creator, text, 0, FALSE, auth,
                                "ok", new_id)
                /\ returned' = Append(returned, new_id)
                /\ UNCHANGED <<voted, vote_log, calls>>

submit_fact(creator, text, auth) == submit_fact_within(MaxFacts, creator, text, auth)

\* ------------------------------------------------------------------- vote
\* Mutant: the scan stops one short of the end of voters.
HasVotedSkipLast(voters, voter) == \E i \in 1..(Len(voters) - 1) : voters[i] = voter

\* for existing_voter in fact.voters.iter() { if existing_voter == voter {..} }
HasVoted(voters, voter) == \E i \in 1..Len(voters) : voters[i] = voter

\* Mutant: the voter is inserted at the front (push_front).
PushVoterFront(fact, voter) == [fact EXCEPT !.voters = <<voter>> \o @]

\* fact.voters.push_back(voter)
PushVoter(fact, voter) == [fact EXCEPT !.voters = Append(@, voter)]

\* Mutant: the else branch is missing, false votes are not counted.
CountVoteTrueOnly(fact, is_true) ==
    IF is_true THEN [fact EXCEPT !.true_votes = @ + 1] ELSE fact

\* Mutant: the branches are swapped.
CountVoteSwapped(fact, is_true) ==
    IF is_true THEN [fact EXCEPT !.false_votes = @ + 1]
               ELSE [fact EXCEPT !.true_votes = @ + 1]

\* if is_true { fact.true_votes += 1 } else { fact.false_votes += 1 }
CountVote(fact, is_true) ==
    IF is_true THEN [fact EXCEPT !.true_votes = @ + 1]
               ELSE [fact EXCEPT !.false_votes = @ + 1]

\* Mutant: the record is looked up and scanned before require_auth.
VoteOutcomeLookupFirst(voter, fact_id, auth) ==
    IF PersistentGet(fact_id) = None THEN "NotFound"
    ELSE IF HasVoted(persistent[fact_id].voters, voter) THEN "AlreadyVoted"
    ELSE IF ~auth THEN "AuthorizationFailure"
    ELSE "ok"

\* Mutant: the creator of a fact is refused as its voter.
VoteOutcomeNotCreator(voter, fact_id, auth) ==
    IF ~auth THEN "AuthorizationFailure"
    ELSE IF PersistentGet(fact_id) = None THEN "NotFound"
    ELSE IF persistent[fact_id].creator = voter THEN "AuthorizationFailure"
    ELSE IF HasVoted(persistent[fact_id].voters, voter) THEN "AlreadyVoted"
    ELSE "ok"

\* The outcome of vote's checks, in the order the code makes them.
VoteOutcome(voter, fact_id, auth) ==
    IF ~auth THEN "AuthorizationFailure"
    ELSE IF PersistentGet(fact_id) = None THEN "NotFound"
    ELSE IF HasVoted(persistent[fact_id].voters, voter) THEN "AlreadyVoted"
    ELSE "ok"

\* Mutant: the tally is counted and saved before the scan, and the refusal
\* is reported without undoing it.
vote_counts_first(voter, fact_id, is_true, auth) ==
    /\ InstanceLive
    /\ LET outcome == VoteOutcome(voter, fact_id, auth)
       IN  IF outcome = "AlreadyVoted"
           THEN /\ persistent' = SetEntry(persistent, fact_id,
                                          CountVote(persistent[fact_id], is_true))
                /\ last' = Call("vote", voter, "", fact_id, is_true, auth, outcome, Unit)
                /\ UNCHANGED <<fact_cnt, instance_ttl, ttl, returned, voted, vote_log, calls>>
           ELSE IF outcome # "ok"
           THEN Panic(Call("vote", voter, "", fact_id, is_true, auth, outcome, Unit))
           ELSE LET fact == CountVote(PushVoter(persistent[fact_id], voter), is_true)
                IN  /\ Cardinality(voted) < MaxVotes
                    /\ persistent' = SetEntry(persistent, fact_id, fact)
                    /\ ttl' = ExtendEntryTtl(SetTtl(ttl, fact_id), fact_id)
                    /\ last' = Call("vote", voter, "", fact_id, is_true, auth, "ok", Unit)
                    /\ voted' = voted \cup {<<voter, fact_id>>}
                    /\ vote_log' = Logged(voter, fact_id, Len(LogOf(fact_id)))
                    /\ UNCHANGED <<fact_cnt, instance_ttl, returned, calls>>

vote(voter, fact_id, is_true, auth) ==
    /\ InstanceLive
    /\ LET outcome == VoteOutcome(voter, fact_id, auth)
       IN  IF outcome # "ok"
           THEN \* require_auth, expect("Fact not found") or panic!("Already voted..")
                Panic(Call("vote", voter, "", fact_id, is_true, auth, outcome, Unit))
           ELSE LET fact == CountVote(PushVoter(persistent[fact_id], voter), is_true)
                IN  /\ Cardinality(voted) < MaxVotes
                    /\ persistent' = SetEntry(persistent, fact_id, fact)
                    /\ ttl' = ExtendEntryTtl(SetTtl(ttl, fact_id), fact_id)
                    /\ last' = Call("vote", voter, "", fact_id, is_true, auth, "ok", Unit)
                    /\ voted' = voted \cup {<<voter, fact_id>>}
                    /\ vote_log' = Logged(voter, fact_id, Len(LogOf(fact_id)))
                    /\ UNCHANGED <<fact_cnt, instance_ttl, returned, calls>>

\* --------------------------------------------------------------- get_fact
get_fact(fact_id) ==
    /\ InstanceLive
    /\ IF PersistentGet(fact_id) = None
       THEN \* expect("Fact not found")
            Panic(Call("get_fact", 0, "", fact_id, FALSE, TRUE, "NotFound", Unit))
       ELSE /\ ttl' = ExtendEntryTtl(ttl, fact_id)
            /\ last' = Call("get_fact", 0, "", fact_id, FALSE, TRUE, "ok",
                            persistent[fact_id])
            /\ UNCHANGED <<fact_cnt, instance_ttl, persistent, returned, voted, vote_log, calls>>

\* ---------------------------------------------------------- get_all_facts
RECURSIVE CollectFacts(_, _)
\* for id in id..=fact_count { if let Some(fact) = get(id) { facts.push_back(fact) } }
CollectFacts(id, fact_count) ==
    IF id > fact_count THEN <<>>
    ELSE (IF PersistentGet(id) = None THEN <<>> ELSE <<persistent[id]>>)
         \o CollectFacts(id + 1, fact_count)

\* Mutant: for id in 0..fact_count
AllFactsExclusive(fact_count) == CollectFacts(0, fact_count - 1)

\* for id in 1..=fact_count
AllFacts(fact_count) == CollectFacts(1, fact_count)

\* The ids whose entries the loop extends: those it found.
FoundIds(fact_count) == {id \in 1..fact_count : PersistentGet(id) # None}

\* The time-to-live map after the loop of get_all_facts.
ExtendFound(t, fact_count) ==
    [k \in DOMAIN t |->
        IF k \in FoundIds(fact_count)
        THEN ExtendTtl(t[k], TtlThreshold, TtlExtendTo) ELSE t[k]]

\* Mutant: a missing record makes the enumeration fail (expect instead of if let).
get_all_facts_strict ==
    /\ InstanceLive
    /\ LET fact_count == StoredCount
       IN  IF FoundIds(fact_count) # 1..fact_count
           THEN Panic(Call("get_all_facts", 0, "", 0, FALSE, TRUE, "NotFound", Unit))
           ELSE /\ ttl' = ExtendFound(ttl, fact_count)
                /\ last' = Call("get_all_facts", 0, "", 0, FALSE, TRUE, "ok",
                                AllFacts(fact_count))
                /\ UNCHANGED <<fact_cnt, instance_ttl, persistent, returned, voted, vote_log, calls>>

get_all_facts ==
    /\ InstanceLive
    /\ LET fact_count == StoredCount
       IN  /\ ttl' = ExtendFound(ttl, fact_count)
           /\ last' = Call("get_all_facts", 0, "", 0, FALSE, TRUE, "ok",
                           AllFacts(fact_count))
    /\ UNCHANGED <<fact_cnt, instance_ttl, persistent, returned, voted, vote_log, calls>>

\* --------------------------------------------------------- get_fact_count
\* Mutant: the number of live records is returned instead of the counter.
get_fact_count_live ==
    /\ InstanceLive
    /\ last' = Call("get_fact_count", 0, "", 0, FALSE, TRUE, "ok",
                    Cardinality(DOMAIN persistent))
    /\ UNCHANGED <<fact_cnt, instance_ttl, persistent, ttl, returned, voted, vote_log, calls>>

get_fact_count ==
    /\ InstanceLive
    /\ last' = Call("get_fact_count", 0, "", 0, FALSE, TRUE, "ok", StoredCount)
    /\ UNCHANGED <<fact_cnt, instance_ttl, persistent, ttl, returned, voted, vote_log, calls>>

\* ------------------------------------------------------- the ledger clock
\* LedgerStep ledgers close.  An entry whose time-to-live runs out is
\* evicted: later lookups of its key find nothing.  When the instance
\* itself runs out the contract can no longer be invoked.
Expired(t) == t - LedgerStep < 0

LedgerAdvance ==
    /\ InstanceLive
    /\ LET live == {k \in DOMAIN persistent : ~Expired(ttl[k])}
       IN  /\ persistent' = [k \in live |-> persistent[k]]
           /\ ttl' = [k \in live |-> ttl[k] - LedgerStep]
    /\ instance_ttl' = IF Expired(instance_ttl) THEN -1 ELSE instance_ttl - LedgerStep
    /\ last' = NoCall
    /\ UNCHANGED <<fact_cnt, returned, voted, vote_log, calls>>

Next ==
    \/ \E creator \in Address, text \in Texts, auth \in BOOLEAN :
           submit_fact(creator, text, auth)
    \/ \E voter \in Address, fact_id \in FactIds, is_true \in BOOLEAN, auth \in BOOLEAN :
           vote(voter, fact_id, is_true, auth)
    \/ \E fact_id \in FactIds : get_fact(fact_id)
    \/ get_all_facts
    \/ get_fact_count
    \/ LedgerAdvance

Spec == Init /\ [][Next]_vars

\* ------------------------------------------- vote calls that interleave
\* The host is taken not to isolate calls: a vote call is two steps, its
\* load and scan (lines 81-95) and, later, its update and write-back of the
\* whole record (lines 97-111).  Other calls may run in between.

\* Number of vote calls that can be in progress at once.
MaxCalls == 2

\* The votes logged so far, over all facts.
LoggedVotes ==
    UNION {{<<id, i>> : i \in 1..Len(vote_log[id])} : id \in DOMAIN vote_log}

\* voter.require_auth(); let mut fact = get(..).expect(..); for existing_voter ..
vote_load(p, voter, fact_id, is_true) ==
    /\ InstanceLive
    /\ p \notin DOMAIN calls
    /\ LET outcome == VoteOutcome(voter, fact_id, TRUE)
       IN  IF outcome # "ok"
           THEN Panic(Call("vote", voter, "", fact_id, is_true, TRUE, outcome, Unit))
           ELSE /\ Cardinality(LoggedVotes) + Cardinality(DOMAIN calls) < MaxVotes
                /\ calls' = [q \in (DOMAIN calls) \cup {p} |->
                                IF q = p
                                THEN [voter |-> voter, fact_id |-> fact_id,
                                      is_true |-> is_true,
                                      fact |-> persistent[fact_id],
                                      loaded_at |-> Len(LogOf(fact_id))]
                                ELSE calls[q]]
                /\ UNCHANGED <<fact_cnt, instance_ttl, persistent, ttl, last,
                               returned, voted, vote_log>>

\* fact.voters.push_back(voter); counter += 1; set(&fact_key, &fact); extend_ttl
vote_store(p) ==
    /\ InstanceLive
    /\ p \in DOMAIN calls
    /\ LET c == calls[p]
           fact == CountVote(PushVoter(c.fact, c.voter), c.is_true)
       IN  /\ persistent' = SetEntry(persistent, c.fact_id, fact)
           /\ ttl' = ExtendEntryTtl(SetTtl(ttl, c.fact_id), c.fact_id)
           /\ last' = Call("vote", c.voter, "", c.fact_id, c.is_true, TRUE, "ok", Unit)
           /\ voted' = voted \cup {<<c.voter, c.fact_id>>}
           /\ vote_log' = Logged(c.voter, c.fact_id, c.loaded_at)
    /\ calls' = [q \in (DOMAIN calls) \ {p} |-> calls[q]]
    /\ UNCHANGED <<fact_cnt, instance_ttl, returned>>

RaceNext ==
    \/ \E creator \in Address, text \in Texts, auth \in BOOLEAN :
           submit_fact(creator, text, auth)
    \/ \E p \in 1..MaxCalls, voter \in Address, fact_id \in FactIds, is_true \in BOOLEAN :
           vote_load(p, voter, fact_id, is_true)
    \/ \E p \in 1..MaxCalls : vote_store(p)
    \/ LedgerAdvance

SpecRace == Init /\ [][RaceNext]_vars

\* --------------------------------------- submissions after an eviction
\* A record is evicted while the contract instance stays live only when a
\* later submit_fact has extended the instance, so a submission after an
\* eviction is the third one at the earliest.
MaxFactsEvict == 3

submit_fact_more(creator, text, auth) ==
    submit_fact_within(MaxFactsEvict, creator, text, auth)

EvictNext ==
    \/ \E creator \in Address, auth \in BOOLEAN :
           submit_fact_more(creator, "The Earth is round", auth)
    \/ \E voter \in Address, fact_id \in FactIds, is_true \in BOOLEAN, auth \in BOOLEAN :
           vote(voter, fact_id, is_true, auth)
    \/ \E fact_id \in FactIds : get_fact(fact_id)
    \/ get_all_facts
    \/ LedgerAdvance

SpecEvict == Init /\ [][EvictNext]_vars

\* ------------------------------------------------- the counter as a u32
\* FACT_CNT and the ids are u32.  The width is scaled down so that the
\* largest value is reached after a few submissions.
CounterWidth == 2
MaxSubmits == 5

U32Max == 2 ^ CounterWidth - 1

\* fact_count + 1 on u32: the build panics on overflow when overflow checks
\* are compiled in, and wraps modulo 2^w otherwise.
AddU32(a, b, overflow_checks) ==
    IF a + b > U32Max
    THEN IF overflow_checks THEN None ELSE Some((a + b) % (U32Max + 1))
    ELSE Some(a + b)

submit_fact_u32(creator, text, auth, overflow_checks) ==
    /\ InstanceLive
    /\ Len(returned) < MaxSubmits
    /\ LET fact_count == StoredCount
           sum == AddU32(fact_count, 1, overflow_checks)
       IN  IF ~auth
           THEN \* creator.require_auth() panics
                Panic(Call("submit_fact", creator, text, 0, FALSE, auth,
                           "AuthorizationFailure", Unit))
           ELSE IF sum = None
           THEN \* attempt to add with overflow
                Panic(Call("submit_fact", creator, text, 0, FALSE, auth,
                           "Overflow", Unit))
           ELSE LET new_id == UnwrapOr(sum, 0)
                    fact == NewFact(new_id, creator, text)
                IN  /\ persistent' = SetEntry(persistent, new_id, fact)
                    /\ fact_cnt' = Some(new_id)
                    /\ ttl' = ExtendEntryTtl(SetTtl(ttl, new_id), new_id)
                    /\ instance_ttl' = ExtendInstanceTtl(instance_ttl)
                    /\ last' = Call("submit_fact", creator, text, 0, FALSE, auth,
                                    "ok", new_id)
                    /\ returned' = Append(returned, new_id)
                    /\ UNCHANGED <<voted, vote_log, calls>>

OverflowNext ==
    \/ \E creator \in Address, text \in Texts, auth \in BOOLEAN,
          overflow_checks \in BOOLEAN :
           submit_fact_u32(creator, text, auth, overflow_checks)
    \/ \E fact_id \in FactIds : get_fact(fact_id)
    \/ get_all_facts
    \/ get_fact_count
    \/ LedgerAdvance

SpecOverflow == Init /\ [][OverflowNext]_vars

\* ================================================================ claims
\* A step is a call with outcome r when the call recorded after it is one.
Ok(c) == c.result = "ok"
Failed(c) == c.op # "none" /\ c.result # "ok"

\* C1: the ids returned by the successful submit_fact calls are 1, 2, 3, ...
\* in call order, without gap or repeat, whatever votes, reads and failed
\* calls come in between.
C1_SequentialIds ==
    /\ \A i \in 1..Len(returned) : returned[i] = i
    /\ (last.op = "submit_fact" /\ Ok(last)) =>
           (Len(returned) > 0 /\ last.ret = returned[Len(returned)])

\* Two submissions with a successful vote and then a failed call in between
\* the observations.
C1_Witness ==
    /\ returned = <<1, 2>>
    /\ voted # {}
    /\ last.op = "submit_fact" /\ Ok(last) /\ last.ret = 2

\* C2 as stated: once vote(v, fact_id, _) has succeeded, every later vote
\* call by v (authorized as v) on fact_id fails with AlreadyVoted.
C2_Original ==
    [][(last'.op = "vote" /\ last'.auth /\ <<last'.who, last'.fact_id>> \in voted)
          => last'.result = "AlreadyVoted"]_vars

\* C2 amended: once vote(v, fact_id, _) has succeeded, no later vote call
\* with the same v and fact_id succeeds, whatever its choice: it fails with
\* AuthorizationFailure when the caller is not authorized as v, otherwise
\* with AlreadyVoted while the fact's record is live and with NotFound once
\* the record has been evicted.
C2_OneVotePerIdentity ==
    [][(last'.op = "vote" /\ <<last'.who, last'.fact_id>> \in voted)
          => last'.result =
                (IF ~last'.auth THEN "AuthorizationFailure"
                 ELSE IF last'.fact_id \in DOMAIN persistent THEN "AlreadyVoted"
                 ELSE "NotFound")]_vars

\* A second vote of an identity, with the other choice and after another
\* identity voted, was refused with AlreadyVoted.
C2_Witness ==
    /\ last.op = "vote" /\ last.result = "AlreadyVoted"
    /\ last.fact_id \in DOMAIN persistent
    /\ Len(persistent[last.fact_id].voters) = 2
    /\ persistent[last.fact_id].voters[1] = last.who
    /\ persistent[last.fact_id].true_votes = 2
    /\ ~last.is_true

\* C3: every stored fact has true_votes + false_votes = length(voters).
C3_TallyMatchesVoters ==
    \A id \in DOMAIN persistent :
        persistent[id].true_votes + persistent[id].false_votes
            = Len(persistent[id].voters)

\* A fact with one vote each way, right after a refused vote on it.
C3_Witness ==
    /\ Failed(last) /\ last.op = "vote"
    /\ last.fact_id \in DOMAIN persistent
    /\ persistent[last.fact_id].true_votes = 1
    /\ persistent[last.fact_id].false_votes = 1

\* C4: a call that fails leaves the counter and every fact record (and the
\* set of stored records) as they were.
C4_FailedCallChangesNothing ==
    [][Failed(last') => (fact_cnt' = fact_cnt /\ persistent' = persistent)]_vars

\* A vote refused with AlreadyVoted on a registry holding voted facts.
C4_Witness ==
    /\ last.op = "vote" /\ last.result = "AlreadyVoted"
    /\ StoredCount = 2
    /\ Cardinality(voted) = 2

\* C5: get_fact(n) called right after submit_fact(creator, text) returned n
\* succeeds and returns the record <n, text, creator, 0, 0, <<>>>.
C5_SubmitThenGet ==
    [][(/\ last.op = "submit_fact" /\ Ok(last)
        /\ last'.op = "get_fact" /\ last'.fact_id = last.ret)
          => (/\ Ok(last')
              /\ last'.ret = Fact(last.ret, last.text, last.who, 0, 0, <<>>))]_vars

\* get_fact returned the second fact, fresh, while the first fact has votes.
C5_Witness ==
    /\ last.op = "get_fact" /\ Ok(last) /\ last.fact_id = 2
    /\ last.ret = Fact(2, "The Earth is round", 2, 0, 0, <<>>)
    /\ 1 \in DOMAIN persistent /\ persistent[1].creator = 1
    /\ persistent[1].text = "" /\ persistent[1].voters # <<>>

\* C6: a successful vote(v, fact_id, choice) adds 1 to true_votes and leaves
\* false_votes when choice is true, adds 1 to false_votes and leaves
\* true_votes when choice is false, and appends v to voters.
C6_VoteEffect ==
    [][(last'.op = "vote" /\ Ok(last')) =>
          LET id == last'.fact_id IN
          /\ id \in DOMAIN persistent /\ id \in DOMAIN persistent'
          /\ persistent'[id].voters = Append(persistent[id].voters, last'.who)
          /\ persistent'[id].true_votes =
                 persistent[id].true_votes + (IF last'.is_true THEN 1 ELSE 0)
          /\ persistent'[id].false_votes =
                 persistent[id].false_votes + (IF last'.is_true THEN 0 ELSE 1)]_vars

\* A false vote was cast on a fact that already had a true vote.
C6_Witness ==
    /\ last.op = "vote" /\ Ok(last) /\ ~last.is_true
    /\ last.fact_id \in DOMAIN persistent
    /\ persistent[last.fact_id].true_votes = 1
    /\ persistent[last.fact_id].false_votes = 1
    /\ persistent[last.fact_id].voters[2] = last.who

\* C7: get_fact(id), and vote(_, id, _) by an authorized caller (the
\* authorization check comes first), fail with NotFound for every id without
\* a live record: 0, any id above the counter, any evicted id.  get_all_facts
\* can be called in every state where the contract can, never fails, and
\* returns the empty sequence when the counter is 0.
C7_NotFound ==
    /\ (last.op = "get_fact" /\ last.fact_id \notin DOMAIN persistent)
           => last.result = "NotFound"
    /\ (last.op = "vote" /\ last.auth /\ last.fact_id \notin DOMAIN persistent)
           => last.result = "NotFound"
    /\ last.op = "get_all_facts"
           => (Ok(last) /\ (StoredCount = 0 => last.ret = <<>>))
    /\ InstanceLive => ENABLED get_all_facts

\* A vote on an evicted id (within the counter) was refused with NotFound.
C7_Witness ==
    /\ last.op = "vote" /\ last.auth /\ last.result = "NotFound"
    /\ last.fact_id \in 1..StoredCount

\* The ids of a sequence of facts, in order.
IdsOf(facts) == [i \in 1..Len(facts) |-> facts[i].id]

\* C8: get_all_facts returns the live records with ids in [1, counter], each
\* once, in strictly ascending id order; ids without a record are skipped;
\* when no record has been evicted it returns counter entries, the i-th
\* being fact i.
C8_AllFactsAscending ==
    last.op = "get_all_facts" =>
        LET facts == last.ret IN
        /\ Ok(last)
        /\ \A i \in 1..Len(facts) : \A j \in 1..Len(facts) :
               i < j => facts[i].id < facts[j].id
        /\ {facts[i].id : i \in 1..Len(facts)}
               = {id \in 1..StoredCount : id \in DOMAIN persistent}
        /\ \A i \in 1..Len(facts) : facts[i] = persistent[facts[i].id]
        /\ (\A id \in 1..StoredCount : id \in DOMAIN persistent)
               => (Len(facts) = StoredCount /\ \A i \in 1..Len(facts) : facts[i].id = i)

\* get_all_facts skipped the evicted fact 1 and returned fact 2 alone.
C8_Witness ==
    /\ last.op = "get_all_facts" /\ StoredCount = 2
    /\ IdsOf(last.ret) = <<2>>

\* C9: get_fact_count never fails and returns the number of submit_fact
\* calls that have succeeded so far; the stored counter is that number in
\* every state, so votes, failed calls, reads and evictions do not change it.
C9_CountIsSubmissions ==
    /\ StoredCount = Len(returned)
    /\ last.op = "get_fact_count" => (Ok(last) /\ last.ret = Len(returned))
    /\ InstanceLive => ENABLED get_fact_count

\* get_fact_count returned 2 after votes were cast and fact 1 was evicted.
C9_Witness ==
    /\ last.op = "get_fact_count" /\ last.ret = 2
    /\ voted # {}
    /\ 1 \notin DOMAIN persistent

\* An entry with t ledgers left has been refreshed.
Refreshed(t) == t >= TtlExtendTo

\* C10 as stated: submit_fact refreshes the new record and the counter, vote
\* the voted record, get_fact and get_all_facts every record they return,
\* and get_fact_count and get_all_facts, which read the stored counter,
\* refresh the counter.
C10_Original ==
    /\ (last.op = "submit_fact" /\ Ok(last))
           => (Refreshed(ttl[last.ret]) /\ Refreshed(instance_ttl))
    /\ (last.op \in {"vote", "get_fact"} /\ Ok(last))
           => Refreshed(ttl[last.fact_id])
    /\ last.op = "get_all_facts"
           => \A i \in 1..Len(last.ret) : Refreshed(ttl[last.ret[i].id])
    /\ (last.op \in {"get_all_facts", "get_fact_count"} /\ fact_cnt # None)
           => Refreshed(instance_ttl)

\* C10 amended: submit_fact refreshes the new record and the counter, vote
\* refreshes the voted record, get_fact and get_all_facts refresh every
\* record they return; get_all_facts and get_fact_count, which read the
\* stored counter, leave the counter's liveness window as it was.
C10_TtlRefresh ==
    [][/\ (last'.op = "submit_fact" /\ Ok(last'))
              => (Refreshed(ttl'[last'.ret]) /\ Refreshed(instance_ttl'))
       /\ (last'.op \in {"vote", "get_fact"} /\ Ok(last'))
              => Refreshed(ttl'[last'.fact_id])
       /\ last'.op = "get_all_facts"
              => \A i \in 1..Len(last'.ret) : Refreshed(ttl'[last'.ret[i].id])
       /\ last'.op \in {"get_all_facts", "get_fact_count"}
              => instance_ttl' = instance_ttl]_vars

\* get_all_facts returned two records, both refreshed, while the counter's
\* window stayed short.
C10_Witness ==
    /\ last.op = "get_all_facts" /\ Len(last.ret) = 2
    /\ \A id \in DOMAIN ttl : Refreshed(ttl[id])
    /\ fact_cnt # None /\ ~Refreshed(instance_ttl)

\* C11: submit_fact and vote by a caller that is not authorized fail with
\* AuthorizationFailure and leave the storage (entries and liveness windows)
\* untouched, also when the fact does not exist or the identity has voted;
\* in vote the existence check precedes the already-voted check: an
\* authorized vote on an id without a record reports NotFound, also for an
\* identity that voted on it, and AlreadyVoted is reported for live records
\* only.
C11_AuthorizationFirst ==
    [][/\ (last'.op \in {"submit_fact", "vote"} /\ ~last'.auth)
              => (/\ last'.result = "AuthorizationFailure"
                  /\ UNCHANGED <<fact_cnt, instance_ttl, persistent, ttl>>)
       /\ (last'.op = "vote" /\ last'.auth /\ last'.fact_id \notin DOMAIN persistent)
              => last'.result = "NotFound"
       /\ (last'.op = "vote" /\ last'.result = "AlreadyVoted")
              => (last'.auth /\ last'.fact_id \in DOMAIN persistent)]_vars

\* An unauthorized vote by an identity that had voted on a fact whose record
\* is gone was refused with AuthorizationFailure.
C11_Witness ==
    /\ last.op = "vote" /\ ~last.auth /\ last.result = "AuthorizationFailure"
    /\ <<last.who, last.fact_id>> \in voted
    /\ last.fact_id \notin DOMAIN persistent

\* The voters of the successful votes on a fact, in the order of the calls.
RECURSIVE VotersOf(_)
VotersOf(log) ==
    IF log = <<>> THEN <<>> ELSE <<Head(log).voter>> \o VotersOf(Tail(log))

\* C12: under serial execution the voters sequence of every stored fact is
\* the sequence of the identities of the successful vote calls on that fact,
\* in call order.
C12_VotersInVoteOrder ==
    \A id \in DOMAIN persistent : persistent[id].voters = VotersOf(LogOf(id))

\* Two identities voted on fact 1, the second one first, and a refused vote
\* came after.
C12_Witness ==
    /\ 1 \in DOMAIN persistent
    /\ persistent[1].voters = <<2, 1>>
    /\ Failed(last)

\* C13: two vote calls of one identity on one fact both succeed only when
\* they interleave: the later one loaded the record before the earlier one
\* wrote it back.  When every call runs from load to write-back before the
\* next one loads, no identity has two successful votes on a fact; when
\* calls interleave, such a behaviour exists (C13_Witness).
C13_DoubleVoteOnlyByRace ==
    \A id \in DOMAIN vote_log :
        \A i \in 1..Len(vote_log[id]) : \A j \in 1..Len(vote_log[id]) :
            (i < j /\ vote_log[id][i].voter = vote_log[id][j].voter)
                => vote_log[id][j].loaded_at < i

\* Two vote calls of the same identity on fact 1 have both returned success.
C13_Witness ==
    /\ Len(LogOf(1)) = 2
    /\ vote_log[1][1].voter = vote_log[1][2].voter
    /\ last.op = "vote" /\ Ok(last)

\* C14: when vote calls interleave, every stored fact still has no identity
\* twice in voters and still has true_votes + false_votes = length(voters);
\* but a vote call that returned success can be overwritten by the
\* write-back of another call, so that its voter is not in the stored
\* record (C14_Witness).
C14_RaceKeepsRecordsConsistent ==
    \A id \in DOMAIN persistent :
        LET f == persistent[id] IN
        /\ \A i \in 1..Len(f.voters) : \A j \in 1..Len(f.voters) :
               f.voters[i] = f.voters[j] => i = j
        /\ f.true_votes + f.false_votes = Len(f.voters)

\* Two calls on fact 1 returned success, the first for a true vote of an
\* identity that the stored record does not list; the record counts one
\* vote, a false one.
C14_Witness ==
    /\ 1 \in DOMAIN persistent /\ Len(LogOf(1)) = 2
    /\ ~HasVoted(persistent[1].voters, vote_log[1][1].voter)
    /\ Len(persistent[1].voters) = 1
    /\ persistent[1].true_votes = 0 /\ persistent[1].false_votes = 1

\* s is a prefix of t.
IsPrefix(s, t) == Len(s) <= Len(t) /\ \A i \in 1..Len(s) : s[i] = t[i]

\* C15: over every step, for every fact with a record before and after it:
\* true_votes and false_votes do not decrease, voters only grows at its end,
\* and id, text and creator do not change; a successful submit_fact leaves
\* every record stored before it as it was.
C15_RecordsOnlyGrow ==
    [][/\ \A id \in (DOMAIN persistent) \cap (DOMAIN persistent') :
              /\ persistent'[id].true_votes >= persistent[id].true_votes
              /\ persistent'[id].false_votes >= persistent[id].false_votes
              /\ IsPrefix(persistent[id].voters, persistent'[id].voters)
              /\ persistent'[id].id = persistent[id].id
              /\ persistent'[id].text = persistent[id].text
              /\ persistent'[id].creator = persistent[id].creator
       /\ (last'.op = "submit_fact" /\ Ok(last'))
              => \A id \in DOMAIN persistent :
                     id \in DOMAIN persistent' /\ persistent'[id] = persistent[id]]_vars

\* The second fact was submitted while the first one holds two votes.
C15_Witness ==
    /\ last.op = "submit_fact" /\ Ok(last) /\ last.ret = 2
    /\ 1 \in DOMAIN persistent /\ Len(persistent[1].voters) = 2
    /\ persistent[1].creator # last.who /\ persistent[1].text # last.text

\* C16: a successful vote on fact_id leaves the counter, every other fact
\* record (and the set of records) and the id, text and creator of fact_id
\* unchanged; and every authorized identity that has not voted on a live
\* fact, its creator included, succeeds in voting on it.
C16_VoteFrame ==
    [][/\ (last'.op = "vote" /\ Ok(last')) =>
              LET id == last'.fact_id IN
              /\ fact_cnt' = fact_cnt
              /\ DOMAIN persistent' = DOMAIN persistent
              /\ \A k \in (DOMAIN persistent) \ {id} : persistent'[k] = persistent[k]
              /\ persistent'[id].id = persistent[id].id
              /\ persistent'[id].text = persistent[id].text
              /\ persistent'[id].creator = persistent[id].creator
       /\ (/\ last'.op = "vote" /\ last'.auth
           /\ last'.fact_id \in DOMAIN persistent
           /\ <<last'.who, last'.fact_id>> \notin voted) => Ok(last')]_vars

\* The creator of fact 2 voted on it, with fact 1 stored beside it.
C16_Witness ==
    /\ last.op = "vote" /\ Ok(last) /\ last.fact_id = 2
    /\ persistent[2].creator = last.who
    /\ 1 \in DOMAIN persistent /\ persistent[1].voters # <<>>

\* The ids of the records a read returned.
ReturnedIds(c) ==
    IF c.op = "get_fact" /\ Ok(c) THEN {c.fact_id}
    ELSE IF c.op = "get_all_facts" THEN {c.ret[i].id : i \in 1..Len(c.ret)}
    ELSE {}

\* C17: get_fact, get_all_facts and get_fact_count, successful or failed,
\* leave the counter and every fact record as they were; all they change is
\* the liveness window of the records they return, which they extend.
C17_ReadsChangeNoData ==
    [][last'.op \in {"get_fact", "get_all_facts", "get_fact_count"} =>
          /\ fact_cnt' = fact_cnt /\ persistent' = persistent
          /\ instance_ttl' = instance_ttl
          /\ DOMAIN ttl' = DOMAIN ttl
          /\ \A k \in DOMAIN ttl :
                 IF k \in ReturnedIds(last') THEN ttl'[k] >= ttl[k]
                 ELSE ttl'[k] = ttl[k]]_vars

\* get_fact returned fact 1, whose window is extended, while the window of
\* fact 2 is as short as before.
C17_Witness ==
    /\ last.op = "get_fact" /\ Ok(last) /\ last.fact_id = 1
    /\ DOMAIN ttl = {1, 2}
    /\ Refreshed(ttl[1]) /\ ~Refreshed(ttl[2])
    /\ persistent[1].voters # <<>>

\* Every record is stored under its own id, within [1, counter], and the
\* counter is the number of facts created and the last id assigned.
RecordsWithinCounter ==
    /\ \A k \in DOMAIN persistent :
           persistent[k].id = k /\ 1 <= k /\ k <= StoredCount
    /\ StoredCount = Len(returned)
    /\ returned # <<>> => returned[Len(returned)] = StoredCount

\* Every id in [1, counter] has a record.
AllRecordsLive == \A k \in 1..StoredCount : k \in DOMAIN persistent

\* C18: in every reachable state every record stored under key k has id k
\* and 1 <= k <= counter, the counter being the number of facts created and
\* the highest id assigned; and no call of the contract takes a record away:
\* if every id in [1, counter] has a record before a call, it has one after
\* it, so ids are missing only after evictions.
C18_RecordsMatchCounter ==
    /\ []RecordsWithinCounter
    /\ [][(last'.op # "none" /\ AllRecordsLive) => AllRecordsLive']_vars

\* Two facts are stored, both voted on, under ids 1 and 2 with counter 2.
C18_Witness ==
    /\ StoredCount = 2 /\ DOMAIN persistent = {1, 2}
    /\ persistent[1].voters # <<>> /\ persistent[2].voters # <<>>
    /\ last.op = "vote" /\ Ok(last)

\* The ids within the counter whose record is gone.
Evicted == {k \in 1..StoredCount : k \notin DOMAIN persistent}

\* C19: an id within the counter whose record is gone stays without a record
\* over every step, and the counter keeps counting it; an authorized vote on
\* it (also by an identity that had voted on it) and get_fact of it fail with
\* NotFound, and get_all_facts does not return it.
C19_EvictedStaysGone ==
    [][\A k \in Evicted :
          /\ k \notin DOMAIN persistent'
          /\ UnwrapOr(fact_cnt', 0) >= StoredCount
          /\ (last'.op = "vote" /\ last'.auth /\ last'.fact_id = k)
                 => last'.result = "NotFound"
          /\ (last'.op = "get_fact" /\ last'.fact_id = k)
                 => last'.result = "NotFound"
          /\ last'.op = "get_all_facts" => k \notin ReturnedIds(last')]_vars

\* An identity that had voted on fact 1 votes on it after its eviction and
\* gets NotFound; the fact submitted after the eviction took id 3, not 1.
C19_Witness ==
    /\ last.op = "vote" /\ last.auth /\ last.result = "NotFound"
    /\ last.fact_id = 1 /\ <<last.who, 1>> \in voted
    /\ StoredCount = 3 /\ 3 \in DOMAIN persistent /\ 1 \notin DOMAIN persistent
    /\ ttl[3] = TtlExtendTo

\* C20: with the counter in a bounded unsigned integer, every id submit_fact
\* returns is positive and strictly greater than every id it returned
\* before, and no call overwrites a stored record or lowers the counter.
C20_Original ==
    /\ \A i \in 1..Len(returned) :
           /\ returned[i] > 0
           /\ \A j \in 1..(i - 1) : returned[j] < returned[i]
    /\ 0 \notin DOMAIN persistent
    /\ StoredCount >= Len(returned)

====
